---- MODULE Spec2Model ----
(***************************************************************************)
(* Model of the categorical preprocessing adapters of auto-sklearn:        *)
(*   - CategoryShift (category_shift/category_shift.py): fit / transform   *)
(*     wrapper around implementations.CategoryShift, and its (empty)       *)
(*     hyperparameter search space;                                        *)
(*   - CategoricalPreprocessingPipeline                                    *)
(*     (data_preprocessing_categorical.py): the list of steps returned by  *)
(*     _get_pipeline_steps and their execution in sequence on one column   *)
(*     of categorical data.                                                *)
(* Three specifications share the module:                                  *)
(*   Spec       the pipeline (construction, then one step at a time),      *)
(*   SpecShift  one CategoryShift instance under fit / transform calls,    *)
(*   SpecSpace  callers of CategoryShift.get_hyperparameter_search_space.  *)
(***************************************************************************)
EXTENDS Integers, Sequences, FiniteSets, TLC

VARIABLES
    \* ---- CategoricalPreprocessingPipeline
    steps,        \* self.steps: the list returned by _get_pipeline_steps
    pc,           \* index of the next step to fit_transform
    data,         \* the column as it flows through the steps
    orig,         \* the column handed to the pipeline (history)
    coalesced,    \* positions rewritten by the coalescence step (history)
    executed,     \* classes of the steps run so far, in order (history)
    encoded,      \* output of the one hot encoding step
    seenLabels,   \* label lists returned by _get_pipeline_steps so far (history)
    seenProps,    \* dataset_properties arguments passed so far (history)
    \* ---- one CategoryShift instance
    inst,         \* the instance's attributes (random_state, preprocessor)
    nextId,       \* identity of the next object a constructor call creates
    lastImplFit,  \* the latest call of the inner preprocessor's fit (history)
    ret,          \* outcome of the latest fit / transform call
    \* ---- ConfigurationSpace objects handed out by the search-space method
    spaces,       \* heap of ConfigurationSpace objects: id -> hyperparameters
    returned,     \* reference returned by the latest call
    ncalls        \* number of calls made

pipeVars  == <<steps, pc, data, orig, coalesced, executed, encoded, seenLabels, seenProps>>
shiftVars == <<inst, nextId, lastImplFit, ret>>
spaceVars == <<spaces, returned, ncalls>>
vars      == <<steps, pc, data, orig, coalesced, executed, encoded, seenLabels, seenProps,
               inst, nextId, lastImplFit, ret, spaces, returned, ncalls>>

-----------------------------------------------------------------------------
(* Bounds *)

\* largest category value of an input column
MaxCat == 2
\* rows of a column handed to the pipeline
MaxRows == 3
\* rows of a column handed to CategoryShift.fit / transform
MaxLen == 2
\* fit calls on the one CategoryShift instance
MaxFits == 2
\* calls of get_hyperparameter_search_space
MaxSpaces == 3

-----------------------------------------------------------------------------
(* Values *)

\* a missing value (np.nan); categories are the naturals 0..MaxCat
NaN == -1

\* "Adds 3 to every category value"
Shift == 3
\* "Assign category 2 to missing values (NaN)"
MissingCategory == 2
\* "Assign category 1 to all categories whose occurrence ..."
CoalescedCategory == 1

Cells == {NaN} \cup (0 .. MaxCat)

Columns(n) == UNION {[1 .. k -> Cells] : k \in 1 .. n}

\* the columns handed to CategoryShift.fit / transform hold a missing value,
\* the smallest and the largest category
ShiftCells == {NaN, 0, MaxCat}

ShiftColumns(n) == UNION {[1 .. k -> ShiftCells] : k \in 1 .. n}

\* y: Optional[PIPELINE_DATA_DTYPE] = None
Targets == {"None", "y"}

\* random_state: Optional[np.random.RandomState] = None
RandomStates == {"None", "RandomState"}

\* dataset_properties arguments: None, an empty dict, non-empty dicts, and a
\* value that is not a dict (a list of pairs)
DatasetProps ==
    { [type |-> "NoneType", items |-> {}],
      [type |-> "dict",     items |-> {}],
      [type |-> "dict",     items |-> {<<"sparse", "False">>}],
      [type |-> "list",     items |-> {<<"sparse", "True">>}] }

\* hyperparameters a caller may add to a configuration space it was handed
HyperparameterNames == {"a", "b", "c"}

Range(s) == {s[i] : i \in DOMAIN s}

IsPrefix(s, t) == Len(s) <= Len(t) /\ \A i \in 1 .. Len(s) : s[i] = t[i]

-----------------------------------------------------------------------------
(* CategoryShift: category_shift/category_shift.py *)

\* implementations.CategoryShift.CategoryShift.transform: "Add 3 to every
\* category"; a missing value stays missing (NaN + 3 is NaN)
Impl_transform(X) ==
    [i \in DOMAIN X |-> IF X[i] = NaN THEN NaN ELSE X[i] + Shift]

\* __init__ binds random_state and nothing else: it neither assigns
\* self.preprocessor nor calls the base class's __init__, and the class body
\* binds no attribute of that name
CategoryShift_init(random_state) ==
    [random_state |-> random_state,
     preprocessor |-> [tag |-> "unset", id |-> 0]]

\* a faulty variant of fit: an already installed preprocessor is kept and fitted again
CategoryShift_fit_keep(self, fresh, X, y) ==
    IF self.preprocessor.tag = "object"
    THEN [self    |-> self,
          created |-> 0,
          implFit |-> [obj |-> self.preprocessor.id, X |-> X, y |-> y],
          result  |-> "self"]
    ELSE [self    |-> [self EXCEPT !.preprocessor = [tag |-> "object", id |-> fresh]],
          created |-> 1,
          implFit |-> [obj |-> fresh, X |-> X, y |-> y],
          result  |-> "self"]

\* fit: self.preprocessor = implementations.CategoryShift.CategoryShift();
\* self.preprocessor.fit(X, y); return self.  `fresh` is the identity of the
\* object the constructor call creates.
CategoryShift_fit(self, fresh, X, y) ==
    [self    |-> [self EXCEPT !.preprocessor = [tag |-> "object", id |-> fresh]],
     created |-> 1,
     implFit |-> [obj |-> fresh, X |-> X, y |-> y],
     result  |-> "self"]

\* a faulty variant of transform: the inner transform is taken to work in place and
\* the argument is returned
CategoryShift_transform_inplace(self, X) ==
    IF self.preprocessor.tag = "unset"
    THEN [kind |-> "raise", exc |-> "AttributeError", out |-> <<>>, delegate |-> 0]
    ELSE IF self.preprocessor.tag = "None"
    THEN [kind |-> "raise", exc |-> "NotImplementedError", out |-> <<>>, delegate |-> 0]
    ELSE [kind |-> "return", exc |-> "", out |-> X,
          delegate |-> self.preprocessor.id]

\* transform: reading self.preprocessor on an instance that has no such
\* attribute raises AttributeError; None raises NotImplementedError; otherwise
\* the call is delegated to the installed preprocessor
CategoryShift_transform(self, X) ==
    IF self.preprocessor.tag = "unset"
    THEN [kind |-> "raise", exc |-> "AttributeError", out |-> <<>>, delegate |-> 0]
    ELSE IF self.preprocessor.tag = "None"
    THEN [kind |-> "raise", exc |-> "NotImplementedError", out |-> <<>>, delegate |-> 0]
    ELSE [kind |-> "return", exc |-> "", out |-> Impl_transform(X),
          delegate |-> self.preprocessor.id]

NoCall ==
    [op |-> "init", kind |-> "return", exc |-> "", X |-> <<>>, y |-> "None",
     out |-> <<>>, delegate |-> 0, result |-> "None"]

NoImplFit == [obj |-> 0, X |-> <<>>, y |-> "None"]

ShiftIdle ==
    /\ inst = CategoryShift_init("None")
    /\ nextId = 1
    /\ lastImplFit = NoImplFit
    /\ ret = NoCall

InitShift ==
    /\ \E rs \in RandomStates : inst = CategoryShift_init(rs)
    /\ nextId = 1
    /\ lastImplFit = NoImplFit
    /\ ret = NoCall

Fit(X, y) ==
    /\ nextId <= MaxFits
    /\ LET r == CategoryShift_fit(inst, nextId, X, y) IN
        /\ inst' = r.self
        /\ nextId' = nextId + r.created
        /\ lastImplFit' = r.implFit
        /\ ret' = [op |-> "fit", kind |-> "return", exc |-> "", X |-> X, y |-> y,
                   out |-> <<>>, delegate |-> 0, result |-> r.result]
    /\ UNCHANGED <<pipeVars, spaceVars>>

Transform(X) ==
    /\ LET r == CategoryShift_transform(inst, X) IN
        ret' = [op |-> "transform", kind |-> r.kind, exc |-> r.exc, X |-> X,
                y |-> "None", out |-> r.out, delegate |-> r.delegate,
                result |-> IF r.kind = "return" THEN "data" ELSE "None"]
    /\ UNCHANGED <<inst, nextId, lastImplFit>>
    /\ UNCHANGED <<pipeVars, spaceVars>>

-----------------------------------------------------------------------------
(* CategoryShift.get_hyperparameter_search_space *)

\* a faulty variant: one ConfigurationSpace is created on the first call and handed
\* out by every call
get_hyperparameter_search_space_shared(heap, dataset_properties) ==
    [heap |-> IF heap = <<>> THEN <<{}>> ELSE heap, ref |-> 1]

\* return ConfigurationSpace(): a new object holding no hyperparameter,
\* whatever dataset_properties is
get_hyperparameter_search_space(heap, dataset_properties) ==
    [heap |-> Append(heap, {}), ref |-> Len(heap) + 1]

SpaceIdle ==
    /\ spaces = <<>>
    /\ returned = 0
    /\ ncalls = 0

InitSpace == SpaceIdle

GetSearchSpace(dp) ==
    /\ ncalls < MaxSpaces
    /\ LET r == get_hyperparameter_search_space(spaces, dp) IN
        /\ spaces' = r.heap
        /\ returned' = r.ref
    /\ ncalls' = ncalls + 1
    /\ UNCHANGED <<pipeVars, shiftVars>>

\* a caller adds a hyperparameter to a space an earlier call handed to it
AddHyperparameter(ref, h) ==
    /\ ref \in DOMAIN spaces
    /\ h \notin spaces[ref]
    /\ spaces' = [spaces EXCEPT ![ref] = @ \cup {h}]
    /\ UNCHANGED <<returned, ncalls>>
    /\ UNCHANGED <<pipeVars, shiftVars>>

-----------------------------------------------------------------------------
(* CategoricalPreprocessingPipeline: data_preprocessing_categorical.py *)

Step(label, cls, arg) == [label |-> label, cls |-> cls, arg |-> arg]

NoArg == {<<"<no argument>", "">>}

\* default_dataset_properties = {}; updated with dataset_properties when that
\* is a dict
default_dataset_properties(dataset_properties) ==
    IF dataset_properties.type # "NoneType" /\ dataset_properties.type = "dict"
    THEN dataset_properties.items
    ELSE {}

\* a faulty variant: the steps are only added when dataset_properties is a dict
get_pipeline_steps_guarded(dataset_properties) ==
    IF dataset_properties.type # "NoneType" /\ dataset_properties.type = "dict"
    THEN << Step("imputation", "CategoricalImputation", NoArg),
            Step("encoding", "OrdinalEncoding", NoArg),
            Step("category_shift", "CategoryShift", NoArg),
            Step("category_coalescence", "CoalescenseChoice",
                 default_dataset_properties(dataset_properties)),
            Step("categorical_encoding", "OHEChoice",
                 default_dataset_properties(dataset_properties)) >>
    ELSE << >>

\* _get_pipeline_steps: steps = []; steps.extend([...]); return steps
get_pipeline_steps(dataset_properties) ==
    << Step("imputation", "CategoricalImputation", NoArg),
       Step("encoding", "OrdinalEncoding", NoArg),
       Step("category_shift", "CategoryShift", NoArg),
       Step("category_coalescence", "CoalescenseChoice",
            default_dataset_properties(dataset_properties)),
       Step("categorical_encoding", "OHEChoice",
            default_dataset_properties(dataset_properties)) >>

Labels(ss) == [i \in DOMAIN ss |-> ss[i].label]

Classes(ss) == [i \in DOMAIN ss |-> ss[i].cls]

\* number of rows of column X holding value v
Count(X, v) == Cardinality({i \in DOMAIN X : X[i] = v})

\* CategoricalImputation: "Assign category 2 to missing values (NaN)"
Imputation_transform(X) ==
    [i \in DOMAIN X |-> IF X[i] = NaN THEN MissingCategory ELSE X[i]]

\* OrdinalEncoding: every value is replaced by its position (from 0) among the
\* sorted distinct values of the column
OrdinalEncoding_transform(X) ==
    [i \in DOMAIN X |->
        IF X[i] = NaN THEN NaN
        ELSE Cardinality({v \in Range(X) \ {NaN} : v < X[i]})]

\* CategoryShift as a pipeline step: fit, then transform, on a new instance
CategoryShift_fit_transform(X) ==
    CategoryShift_transform(
        CategoryShift_fit(CategoryShift_init("None"), 1, X, "None").self, X).out

\* positions whose category occurs in fewer than minCount rows
Minority(X, minCount) ==
    {i \in DOMAIN X : X[i] # NaN /\ Count(X, X[i]) < minCount}

\* CoalescenseChoice: "Assign category 1 to all categories whose occurrence
\* don't sum-up to a certain minimum fraction" (minCount rows of the column)
Coalescence_transform(X, minCount) ==
    [i \in DOMAIN X |-> IF i \in Minority(X, minCount) THEN CoalescedCategory ELSE X[i]]

\* OHEChoice: "usual sklearn one hot encoding": one indicator per distinct
\* value of the column, in sorted order
OneHot_transform(X) ==
    LET k == Cardinality(Range(X))
        pos(v) == Cardinality({u \in Range(X) : u < v}) + 1
    IN [i \in DOMAIN X |-> [j \in 1 .. k |-> IF pos(X[i]) = j THEN 1 ELSE 0]]

PipeIdle ==
    /\ steps = <<>>
    /\ pc = 1
    /\ data = <<>>
    /\ orig = <<>>
    /\ coalesced = {}
    /\ executed = <<>>
    /\ encoded = <<>>
    /\ seenLabels = {}
    /\ seenProps = {}

\* __init__ (through BasePipeline) asks _get_pipeline_steps for the steps;
\* the pipeline is then handed the column X
InitPipe ==
    /\ \E dp \in DatasetProps, X \in Columns(MaxRows) :
        /\ steps = get_pipeline_steps(dp)
        /\ data = X
        /\ orig = X
        /\ seenLabels = {Labels(get_pipeline_steps(dp))}
        /\ seenProps = {dp}
    /\ pc = 1
    /\ coalesced = {}
    /\ executed = <<>>
    /\ encoded = <<>>

\* a further call of _get_pipeline_steps; the list it returns is recorded
GetPipelineSteps(dp) ==
    /\ dp \notin seenProps
    /\ seenLabels' = seenLabels \cup {Labels(get_pipeline_steps(dp))}
    /\ seenProps' = seenProps \cup {dp}
    /\ UNCHANGED <<steps, pc, data, orig, coalesced, executed, encoded>>
    /\ UNCHANGED <<shiftVars, spaceVars>>

Ready(cls) == pc <= Len(steps) /\ steps[pc].cls = cls

Advance ==
    /\ pc' = pc + 1
    /\ executed' = Append(executed, steps[pc].cls)
    /\ UNCHANGED <<steps, orig, seenLabels, seenProps>>
    /\ UNCHANGED <<shiftVars, spaceVars>>

RunImputation ==
    /\ Ready("CategoricalImputation")
    /\ data' = Imputation_transform(data)
    /\ UNCHANGED <<coalesced, encoded>>
    /\ Advance

RunOrdinalEncoding ==
    /\ Ready("OrdinalEncoding")
    /\ data' = OrdinalEncoding_transform(data)
    /\ UNCHANGED <<coalesced, encoded>>
    /\ Advance

RunCategoryShift ==
    /\ Ready("CategoryShift")
    /\ data' = CategoryShift_fit_transform(data)
    /\ UNCHANGED <<coalesced, encoded>>
    /\ Advance

RunCoalescence(minCount) ==
    /\ Ready("CoalescenseChoice")
    /\ data' = Coalescence_transform(data, minCount)
    /\ coalesced' = Minority(data, minCount)
    /\ UNCHANGED encoded
    /\ Advance

RunOneHot ==
    /\ Ready("OHEChoice")
    /\ encoded' = OneHot_transform(data)
    /\ UNCHANGED <<data, coalesced>>
    /\ Advance

-----------------------------------------------------------------------------
(* Specifications *)

Init == InitPipe /\ ShiftIdle /\ SpaceIdle

Next ==
    \/ \E dp \in DatasetProps : GetPipelineSteps(dp)
    \/ RunImputation
    \/ RunOrdinalEncoding
    \/ RunCategoryShift
    \/ \E m \in 0 .. MaxRows : RunCoalescence(m)
    \/ RunOneHot

Spec == Init /\ [][Next]_vars

InitShiftSpec == PipeIdle /\ InitShift /\ SpaceIdle

NextShift ==
    \/ \E X \in ShiftColumns(MaxLen), y \in Targets : Fit(X, y)
    \/ \E X \in ShiftColumns(MaxLen) : Transform(X)

SpecShift == InitShiftSpec /\ [][NextShift]_vars

InitSpaceSpec == PipeIdle /\ ShiftIdle /\ InitSpace

NextSpace ==
    \/ \E dp \in DatasetProps : GetSearchSpace(dp)
    \/ \E ref \in 1 .. MaxSpaces, h \in HyperparameterNames : AddHyperparameter(ref, h)

SpecSpace == InitSpaceSpec /\ [][NextSpace]_vars

-----------------------------------------------------------------------------
(* Properties *)

\* the order of the steps the class's docstring gives: 1 - category shift,
\* 2 - imputation, 3 - minority coalescence, 4 - one hot encoding
DocumentedOrder ==
    <<"CategoryShift", "CategoricalImputation", "CoalescenseChoice", "OHEChoice">>

\* C1: the steps returned by _get_pipeline_steps are category shift,
\* imputation, minority coalescence and one hot encoding, in this order, and
\* they are executed in this order: category shift runs first, before
\* imputation.
C1_DocumentedStepOrder ==
    /\ Classes(steps) = DocumentedOrder
    /\ IsPrefix(executed, DocumentedOrder)

\* C2: whatever dataset_properties is (None, an empty dict, a non-empty dict,
\* not a dict), _get_pipeline_steps returns the same labels in the same
\* order, as many as the pipeline has steps, and no label occurs twice.
C2_SameDistinctLabels ==
    /\ Cardinality(seenLabels) = 1
    /\ \A L \in seenLabels :
        /\ L = Labels(steps)
        /\ Len(L) = 5
        /\ \A i, j \in DOMAIN L : i # j => L[i] # L[j]

\* C2 witness: every kind of argument has been passed
C2_AllArgumentsSeen ==
    /\ seenProps = DatasetProps
    /\ Cardinality(seenLabels) = 1

\* C3: a transform after fit returns a column of the same length in which
\* every category is the input's category plus 3 (a missing value stays
\* missing).
C3_TransformAddsThree ==
    (ret.op = "transform" /\ nextId > 1) =>
        /\ ret.kind = "return"
        /\ Len(ret.out) = Len(ret.X)
        /\ \A i \in DOMAIN ret.X :
            /\ ret.X[i] # NaN => ret.out[i] = ret.X[i] + 3
            /\ ret.X[i] = NaN => ret.out[i] = NaN

\* C3 witness: a fitted instance has transformed a column of two rows holding
\* the largest category and a missing value
C3_TransformedAfterFit ==
    /\ ret.op = "transform"
    /\ nextId > 1
    /\ ret.kind = "return"
    /\ Len(ret.X) = 2
    /\ ret.X[1] = MaxCat
    /\ ret.X[2] = NaN

\* C4: in the data that reaches one hot encoding, category 0 is not used,
\* category 2 stands for the missing values and only for them, category 1
\* only for coalesced categories, and no original category that was neither
\* missing nor coalesced is 0, 1 or 2.
C4_ReservedCategories ==
    Ready("OHEChoice") =>
        \A i \in DOMAIN data :
            /\ data[i] # 0
            /\ orig[i] = NaN => data[i] = 2
            /\ data[i] = 2 => orig[i] = NaN
            /\ data[i] = 1 => i \in coalesced
            /\ (orig[i] # NaN /\ i \notin coalesced) => data[i] \notin {0, 1, 2}

\* C5: transform on an instance on which fit was never called raises
\* NotImplementedError and returns no data.
C5_UnfittedRaisesNotImplemented ==
    (ret.op = "transform" /\ nextId = 1) =>
        /\ ret.kind = "raise"
        /\ ret.exc = "NotImplementedError"
        /\ ret.out = <<>>

C6_Call ==
    ncalls' # ncalls =>
        /\ returned' \notin DOMAIN spaces
        /\ returned' \in DOMAIN spaces'
        /\ spaces'[returned'] = {}
        /\ \A r \in DOMAIN spaces : spaces'[r] = spaces[r]

\* C6: every call of get_hyperparameter_search_space returns a configuration
\* space without hyperparameters that no earlier call returned, whatever the
\* argument and whatever callers added to the spaces handed out before.
C6_NewEmptySpace == [][C6_Call]_vars

\* C6 witness: a call has returned an empty space after a caller added a
\* hyperparameter to a space returned earlier
C6_EmptyAfterCallerAdded ==
    /\ ncalls >= 2
    /\ returned \in DOMAIN spaces
    /\ spaces[returned] = {}
    /\ \E r \in DOMAIN spaces : r < returned /\ spaces[r] # {}

C7_Call ==
    /\ (ret'.op = "fit" /\ shiftVars' # shiftVars) =>
        /\ ret'.result = "self"
        /\ inst'.preprocessor.tag = "object"
        /\ inst'.preprocessor.id >= nextId
        /\ inst'.preprocessor # inst.preprocessor
        /\ lastImplFit' = [obj |-> inst'.preprocessor.id, X |-> ret'.X, y |-> ret'.y]
    /\ (ret'.op = "transform" /\ shiftVars' # shiftVars) =>
        /\ inst'.preprocessor = inst.preprocessor
        /\ inst'.random_state = inst.random_state
        /\ lastImplFit' = lastImplFit
        /\ lastImplFit.obj # 0 =>
            /\ ret'.kind = "return"
            /\ ret'.delegate = lastImplFit.obj
            /\ ret'.delegate = nextId - 1

\* C7: fit returns the instance, installs a preprocessor created by that call
\* and fits it on that call's X and y; a transform after a fit delegates to
\* the preprocessor the latest fit installed and changes neither the
\* installed preprocessor nor random_state.
C7_FitReplacesTransformDelegates == [][C7_Call]_vars

\* C7 witness: after two fits, a transform was delegated to the second
\* preprocessor
C7_TransformAfterSecondFit ==
    /\ ret.op = "transform"
    /\ ret.kind = "return"
    /\ nextId = 3
    /\ ret.delegate = 2
    /\ lastImplFit.obj = 2

====
